---- MODULE Spec2Model ----
(***************************************************************************)
(* Model of health_check_service.py: the module-level configuration        *)
(* (lines 9-22) followed by one call of process_all_req (line 232).        *)
(* External collaborators (gspread, requests) answer nondeterministically. *)
(* trace is the sequence of requests that leave the process; authorization *)
(* is the sequence of Authorization headers built by apiCaller; notifier   *)
(* is the sequence of calls of post_to_webhook.                            *)
(***************************************************************************)
EXTENDS Naturals, Sequences, FiniteSets, TLC

(* ---------------- Python values ---------------- *)
\* A Python value is a record: its kind and, for a string, its text.
PyStr(s) == [kind |-> "str", val |-> s]
PyNone == [kind |-> "None", val |-> ""]
\* the value of "return None, None"
NoneTuple == [kind |-> "tuple", val |-> "(None, None)"]
SpreadsheetObj == [kind |-> "obj", val |-> "Spreadsheet"]
WorksheetObj == [kind |-> "obj", val |-> "Worksheet"]

\* Python truthiness: None and "" are falsy, a 2-tuple and an object are truthy.
Truthy(v) ==
    CASE v.kind = "None" -> FALSE
      [] v.kind = "str" -> v.val # ""
      [] OTHER -> TRUE

\* f"{v}" as used in the Authorization header
FormatPy(v) ==
    CASE v.kind = "None" -> "None"
      [] OTHER -> v.val

(* ---------------- JSON values of the status field ---------------- *)
JStr(s) == [type |-> "string", val |-> s]
JNull == [type |-> "null", val |-> "null"]
JTrue == [type |-> "bool", val |-> "true"]
NoJson == [type |-> "absent", val |-> ""]

\* str(x) of a decoded JSON value
str(j) ==
    CASE j.type = "null" -> "None"
      [] j.type = "bool" -> (IF j.val = "true" THEN "True" ELSE "False")
      [] OTHER -> j.val

StatusValues ==
    {JStr("Running"), JStr("Stopped"), JStr("running"), JStr(""), JNull, JTrue}

(* ---------------- bounds and input sets ---------------- *)
MaxRows == 2

Missing == "<missing column>"
Rows ==
    { [Username |-> "svc", Password |-> "pw1"],
      [Username |-> "old", Password |-> "pw0"],
      [Username |-> "svc", Password |-> Missing],
      [Username |-> Missing, Password |-> "pw1"] }

RECURSIVE SeqsUpTo(_)
SeqsUpTo(n) ==
    IF n = 0 THEN {<< >>}
    ELSE LET shorter == SeqsUpTo(n - 1)
         IN shorter \cup {Append(s, r) : s \in {t \in shorter : Len(t) = n - 1}, r \in Rows}

NoFile == "<no file>"
KeysWithEntry == "{\"WINDOWS_SERVER_PASS\": \"SHEET123\"}"
ValidServiceAccount == "{service account}"

ApiOutcomes == {"ok", "transport_error", "http_error", "malformed"}
WebhookOutcomes == {"202", "non202", "transport_error"}

VARIABLES
    webhook_url, service_json, service_api_url, auth_api_url, keys_json,
    repoDirExists, serviceFile, keysFile,
    pc, windows_server_excel_key, spreadsheet, worksheet,
    correct_username, correct_password, access_token, service_message,
    result, trace, authorization, notifier, webhookBody,
    openFailed, credentialsRead, authFailed, statusFailed, statusJson,
    webhookOutcome

env == <<webhook_url, service_json, service_api_url, auth_api_url, keys_json,
         repoDirExists>>
files == <<serviceFile, keysFile>>
locals == <<windows_server_excel_key, spreadsheet, worksheet, correct_username,
            correct_password, access_token, service_message>>
observed == <<openFailed, credentialsRead, authFailed, statusFailed, statusJson,
              webhookOutcome>>
outputs == <<trace, authorization, notifier, webhookBody>>
vars == <<env, files, pc, locals, result, outputs, observed>>

InTrace(op) == \E i \in 1..Len(trace) : trace[i] = op

(* ---------------- helpers translated from the source ---------------- *)

\* f.write(value) raises TypeError when os.getenv returned None
WriteFails_Never(value) == FALSE
WriteFails(value) == value.kind = "None"

\* get_excel_key: json.load of the keys file, then config.get(key_name, "");
\* any exception is printed and the function falls off its end (None).
get_excel_key(content) ==
    CASE content = KeysWithEntry -> PyStr("SHEET123")
      [] content = "{}" -> PyStr("")
      [] OTHER -> PyNone

\* gspread.service_account(service_json_path) accepts the file
ServiceAccountLoads(content) == content = ValidServiceAccount

\* a spreadsheet can only be opened by a non-empty string key
KeyUsable(key) == key.kind = "str" /\ key.val # ""

\* attribute lookup spreadsheet.get_worksheet
HasGetWorksheet_Always(obj) == TRUE
HasGetWorksheet(obj) == obj.kind = "obj"

\* requests.request sends nothing to a URL that is None or empty: it raises
\* a RequestException (MissingSchema) before any connection is made
UrlUsable(url) == url.kind = "str" /\ url.val # ""

\* apiCaller: headers = {'Authorization': f'Bearer {token}'}
apiCaller_headers(token) == "Bearer " \o FormatPy(token)

\* post_to_webhook: if not webhook_url: print(...); return
WebhookUnconfigured_OnlyNone(url) == url.kind = "None"
WebhookUnconfigured(url) == ~Truthy(url)

\* post_to_webhook: "BMS Service is " + text raises TypeError unless text is a str
CanConcat(text) == text.kind = "str"

\* post_to_webhook: does an outcome of requests.post leave the function as an exception
WebhookRaises_OnStatus(outcome) == outcome = "non202"
WebhookRaises_OnTransport(outcome) == outcome = "transport_error"
WebhookRaises(outcome) == FALSE

\* process_all_req: color policy
ColorFor_IgnoringCase(message) ==
    IF message.kind = "str" /\ message.val \in {"Running", "running"}
    THEN "Good" ELSE "Warning"
ColorFor(message) == IF message = PyStr("Running") THEN "Good" ELSE "Warning"

\* process_all_req: order of the statements of the try block
NextStep(step) ==
    CASE step = "lookup_key" -> "open_sheet"
      [] step = "open_sheet" -> "get_worksheet"
      [] step = "get_worksheet" -> "read_records"
      [] step = "read_records" -> "authenticate"
      [] step = "authenticate" -> "check_status"
      [] step = "check_status" -> "notify"
      [] OTHER -> "done"

(* ---------------- initial state ---------------- *)
Init ==
    /\ webhook_url \in {PyNone, PyStr(""), PyStr("https://hook")}
    /\ service_json \in {PyNone, PyStr(ValidServiceAccount), PyStr("garbage")}
    /\ service_api_url \in {PyNone, PyStr("https://svc/status")}
    /\ auth_api_url \in {PyNone, PyStr("https://svc/auth")}
    /\ keys_json \in {PyNone, PyStr(KeysWithEntry), PyStr("{}"), PyStr("garbage")}
    /\ repoDirExists \in BOOLEAN
    /\ serviceFile = NoFile
    /\ keysFile = NoFile
    /\ pc = "start"
    /\ windows_server_excel_key = PyNone
    /\ spreadsheet = PyNone
    /\ worksheet = PyNone
    /\ correct_username = PyNone
    /\ correct_password = PyNone
    /\ access_token = PyNone
    /\ service_message = PyNone
    /\ result = PyNone
    /\ trace = << >>
    /\ authorization = << >>
    /\ notifier = << >>
    /\ webhookBody = << >>
    /\ openFailed = FALSE
    /\ credentialsRead = FALSE
    /\ authFailed = FALSE
    /\ statusFailed = FALSE
    /\ statusJson = NoJson
    /\ webhookOutcome = "none"

(* ---------------- module-level configuration, lines 9-22 ---------------- *)
LoadConfig ==
    /\ pc = "start"
    /\ serviceFile' =
         IF ~repoDirExists THEN NoFile
         ELSE IF WriteFails(service_json) THEN ""
         ELSE service_json.val
    /\ keysFile' =
         IF ~repoDirExists \/ WriteFails(service_json) THEN NoFile
         ELSE IF WriteFails(keys_json) THEN ""
         ELSE keys_json.val
    /\ pc' =
         IF ~repoDirExists \/ WriteFails(service_json) \/ WriteFails(keys_json)
         THEN "aborted"
         ELSE "lookup_key"
    /\ UNCHANGED <<env, locals, result, outputs, observed>>

(* ---------------- process_all_req, lines 192-229 ---------------- *)

\* line 194
LookupKey ==
    /\ pc = "lookup_key"
    /\ windows_server_excel_key' = get_excel_key(keysFile)
    /\ pc' = NextStep("lookup_key")
    /\ UNCHANGED <<env, files, spreadsheet, worksheet, correct_username,
                   correct_password, access_token, service_message, result,
                   outputs, observed>>

\* lines 195-198 with googleSheetConnectNew, lines 58-68
OpenSheet ==
    /\ pc = "open_sheet"
    /\ \E opened \in BOOLEAN :
         /\ opened => (ServiceAccountLoads(serviceFile) /\ KeyUsable(windows_server_excel_key))
         /\ spreadsheet' = IF opened THEN SpreadsheetObj ELSE NoneTuple
         /\ openFailed' = ~opened
    /\ trace' = IF ServiceAccountLoads(serviceFile)
                THEN Append(trace, "open_spreadsheet") ELSE trace
    /\ IF ~Truthy(spreadsheet')
       THEN result' = NoneTuple /\ pc' = "done"
       ELSE result' = result /\ pc' = NextStep("open_sheet")
    /\ UNCHANGED <<env, files, windows_server_excel_key, worksheet,
                   correct_username, correct_password, access_token,
                   service_message, authorization, notifier, webhookBody,
                   credentialsRead, authFailed, statusFailed, statusJson,
                   webhookOutcome>>

\* lines 201-203
GetWorksheet ==
    /\ pc = "get_worksheet"
    /\ \E got \in {"worksheet", "none", "raises"} :
         /\ ~HasGetWorksheet(spreadsheet) => got = "raises"
         /\ worksheet' = IF got = "worksheet" THEN WorksheetObj ELSE PyNone
         /\ IF got = "raises" \/ ~Truthy(worksheet')
            THEN result' = NoneTuple /\ pc' = "done"
            ELSE result' = result /\ pc' = NextStep("get_worksheet")
    /\ UNCHANGED <<env, files, windows_server_excel_key, spreadsheet,
                   correct_username, correct_password, access_token,
                   service_message, outputs, observed>>

\* lines 206-210
ReadRecords ==
    /\ pc = "read_records"
    /\ trace' = Append(trace, "read_records")
    /\ \E raises \in BOOLEAN, data \in SeqsUpTo(MaxRows) :
         LET last == data[Len(data)]
             ok == /\ ~raises
                   /\ Len(data) > 0
                   /\ last.Username # Missing
                   /\ last.Password # Missing
         IN /\ correct_username' =
                 IF ~raises /\ Len(data) > 0 /\ last.Username # Missing
                 THEN PyStr(last.Username) ELSE correct_username
            /\ correct_password' =
                 IF ok THEN PyStr(last.Password) ELSE correct_password
            /\ credentialsRead' = ok
            /\ IF ok
               THEN result' = result /\ pc' = NextStep("read_records")
               ELSE result' = NoneTuple /\ pc' = "done"
    /\ UNCHANGED <<env, files, windows_server_excel_key, spreadsheet, worksheet,
                   access_token, service_message, authorization, notifier,
                   webhookBody, openFailed, authFailed, statusFailed,
                   statusJson, webhookOutcome>>

\* line 213 with authenticate, lines 100-108, and apiCaller, lines 37-46
Authenticate ==
    /\ pc = "authenticate"
    /\ trace' = IF UrlUsable(auth_api_url) THEN Append(trace, "auth_post") ELSE trace
    /\ authorization' = Append(authorization, apiCaller_headers(PyNone))
    /\ \E outcome \in ApiOutcomes :
         /\ ~UrlUsable(auth_api_url) => outcome = "transport_error"
         /\ access_token' = IF outcome = "ok" THEN PyStr("abc") ELSE NoneTuple
         /\ authFailed' = (outcome # "ok")
    /\ pc' = NextStep("authenticate")
    /\ UNCHANGED <<env, files, windows_server_excel_key, spreadsheet, worksheet,
                   correct_username, correct_password, service_message, result,
                   notifier, webhookBody, openFailed, credentialsRead,
                   statusFailed, statusJson, webhookOutcome>>

\* line 216 with checkStausOfService, lines 80-87, and apiCaller, lines 37-46
CheckStatus ==
    /\ pc = "check_status"
    /\ trace' = IF UrlUsable(service_api_url) THEN Append(trace, "status_get") ELSE trace
    /\ authorization' = Append(authorization, apiCaller_headers(access_token))
    /\ \E outcome \in ApiOutcomes, j \in StatusValues :
         /\ ~UrlUsable(service_api_url) => outcome = "transport_error"
         /\ statusJson' = IF outcome = "ok" THEN j ELSE NoJson
         /\ service_message' = IF outcome = "ok" THEN PyStr(str(j)) ELSE NoneTuple
         /\ statusFailed' = (outcome # "ok")
    /\ pc' = NextStep("check_status")
    /\ UNCHANGED <<env, files, windows_server_excel_key, spreadsheet, worksheet,
                   correct_username, correct_password, access_token, result,
                   notifier, webhookBody, openFailed, credentialsRead,
                   authFailed, webhookOutcome>>

\* lines 219-229 with post_to_webhook, lines 138-178
Notify ==
    /\ pc = "notify"
    /\ notifier' = Append(notifier, [text |-> service_message,
                                     color |-> ColorFor(service_message)])
    /\ IF WebhookUnconfigured(webhook_url)
       THEN /\ result' = PyStr("Success")
            /\ UNCHANGED <<trace, webhookBody, webhookOutcome>>
       ELSE IF ~CanConcat(service_message)
       THEN /\ result' = NoneTuple
            /\ UNCHANGED <<trace, webhookBody, webhookOutcome>>
       ELSE /\ trace' = Append(trace, "webhook_post")
            /\ webhookBody' = Append(webhookBody,
                 [text |-> "BMS Service is " \o service_message.val,
                  color |-> ColorFor(service_message)])
            /\ \E outcome \in WebhookOutcomes :
                 /\ webhookOutcome' = outcome
                 /\ result' = IF WebhookRaises(outcome)
                              THEN NoneTuple ELSE PyStr("Success")
    /\ pc' = NextStep("notify")
    /\ UNCHANGED <<env, files, locals, authorization, openFailed,
                   credentialsRead, authFailed, statusFailed, statusJson>>

Next ==
    \/ LoadConfig
    \/ LookupKey
    \/ OpenSheet
    \/ GetWorksheet
    \/ ReadRecords
    \/ Authenticate
    \/ CheckStatus
    \/ Notify

Spec == Init /\ [][Next]_vars

(* ---------------- properties ---------------- *)

Success == PyStr("Success")
Pipeline ==
    <<"open_spreadsheet", "read_records", "auth_post", "status_get", "webhook_post">>
IsPrefix(s, t) == Len(s) <= Len(t) /\ \A i \in 1..Len(s) : s[i] = t[i]

\* the credential read, the authentication and the status check all succeeded
AllStepsSucceeded ==
    /\ credentialsRead
    /\ InTrace("auth_post") /\ ~authFailed
    /\ InTrace("status_get") /\ ~statusFailed

\* C1: once authenticate has failed, no GET to the status endpoint is made.
C1_NoStatusCallAfterAuthFailure == authFailed => ~InTrace("status_get")

\* C2: if googleSheetConnectNew fails, no authentication call and no status
\* call occur in that run.
C2_NoAuthNoStatusWhenSheetNotOpened ==
    openFailed =>
        /\ ~InTrace("auth_post")
        /\ ~InTrace("status_get")
        /\ authorization = << >>
        /\ access_token = PyNone
        /\ service_message = PyNone
C2_Witness ==
    /\ openFailed
    /\ pc = "done"
    /\ windows_server_excel_key = PyStr("")
    /\ spreadsheet = NoneTuple

\* C3: in a run in which a step before the notification fails, no POST to the
\* webhook is made.
C3_NoWebhookAfterFailedStep ==
    (\/ openFailed
     \/ (pc = "done" /\ ~credentialsRead)
     \/ authFailed
     \/ statusFailed) => ~InTrace("webhook_post")

\* C4: if the status call, made with the token of a successful authentication,
\* fails, process_all_req does not return "Success".
C4_StatusFailureIsNotSuccess ==
    (credentialsRead /\ ~authFailed /\ InTrace("status_get") /\ statusFailed)
        => result # Success

\* C5: when the credential read, the authentication and the status check
\* succeed, the notifier is invoked exactly once, with the status label as text,
\* and with color "Good" exactly when the label is "Running", else "Warning".
C5_NotifiedOnceWithColorPolicy ==
    /\ Len(notifier) <= 1
    /\ (pc = "done" /\ AllStepsSucceeded) =>
          /\ Len(notifier) = 1
          /\ notifier[1].text = PyStr(str(statusJson))
          /\ notifier[1].color = "Good" <=> statusJson = JStr("Running")
          /\ notifier[1].color # "Good" => notifier[1].color = "Warning"
C5_Witness ==
    /\ pc = "done"
    /\ AllStepsSucceeded
    /\ statusJson = JStr("Running")
    /\ notifier = <<[text |-> PyStr("Running"), color |-> "Good"]>>

\* C6: with the webhook URL unset or empty no webhook POST is made, and a run
\* whose earlier steps succeed still returns "Success".
C6_UnconfiguredWebhookIsSkipped ==
    (webhook_url = PyNone \/ webhook_url = PyStr("")) =>
        /\ ~InTrace("webhook_post")
        /\ webhookBody = << >>
        /\ (pc = "done" /\ AllStepsSucceeded) => result = Success
C6_Witness ==
    /\ webhook_url = PyStr("")
    /\ pc = "done"
    /\ AllStepsSucceeded
    /\ Len(notifier) = 1
    /\ result = Success

\* C7: when the earlier steps succeed the run returns "Success" for every
\* outcome of the webhook POST.
C7_WebhookOutcomeDoesNotChangeResult ==
    \A o \in WebhookOutcomes :
        (pc = "done" /\ AllStepsSucceeded /\ webhookOutcome = o) => result = Success
C7_Witness ==
    /\ pc = "done"
    /\ AllStepsSucceeded
    /\ webhookOutcome = "transport_error"
    /\ result = Success

AnyValueAbsent ==
    \/ webhook_url = PyNone
    \/ service_json = PyNone
    \/ service_api_url = PyNone
    \/ auth_api_url = PyNone
    \/ keys_json = PyNone

\* C8 as stated: if any of the five environment values is absent, no network
\* call is made.
C8_AnyAbsentValueStopsBeforeNetwork == AnyValueAbsent => trace = << >>

\* C8 as amended: if SERVICE_JSON or KEYS_JSON is absent, the process aborts
\* before any network call is made.
C8_AbsentJsonValueAborts ==
    (service_json = PyNone \/ keys_json = PyNone) =>
        /\ trace = << >>
        /\ pc \in {"start", "aborted"}
        /\ result = PyNone
C8_Witness ==
    /\ pc = "aborted"
    /\ repoDirExists
    /\ service_json # PyNone
    /\ keys_json = PyNone
    /\ keysFile = ""

\* C9: the external operations of a run form a prefix of open spreadsheet,
\* read records, auth POST, status GET, webhook POST.
C9_OperationsArePrefixOfPipeline == IsPrefix(trace, Pipeline)

\* C10: a webhook POST is sent only in runs that return "Success".
C10_PostOnlyInSuccessfulRuns ==
    /\ result = NoneTuple => ~InTrace("webhook_post")
    /\ (InTrace("webhook_post") /\ pc = "done") => result = Success
C10_Witness ==
    /\ pc = "done"
    /\ result = NoneTuple
    /\ statusFailed
    /\ webhook_url = PyStr("https://hook")
    /\ Len(notifier) = 1

====
